---- MODULE Spec2Model ----
(***************************************************************************)
(* QuestFocus: a single-user study timer.  The model covers the App         *)
(* component (timer, stop handler with XP / level / streak / achievement    *)
(* logic, the feedback continuation, the view switch), the useLocalStorage  *)
(* hook with the three persisted records, the feedback service and the      *)
(* constants module.                                                        *)
(*                                                                          *)
(* Time is in milliseconds since the epoch (Date.now()).  A handler is one  *)
(* atomic action: JavaScript runs an event handler to completion, up to     *)
(* its first await.                                                         *)
(***************************************************************************)
EXTENDS Integers, Sequences, FiniteSets, TLC

VARIABLES
    now,              \* Date.now(), the wall clock
    stats,            \* useLocalStorage('qf_stats') in-memory value
    sessions,         \* useLocalStorage('qf_sessions') in-memory value, newest first
    achievements,     \* useLocalStorage('qf_achievements') in-memory value
    store,            \* window.localStorage, the three keys
    timerActive,      \* useState(false)
    timerSeconds,     \* useState(0)
    subject,          \* useState(''), a sequence of characters
    startTimeRef,     \* useRef: start instant fixed when the timer (re)starts
    geminiFeedback,   \* useState(null): the message on display
    loadingFeedback,  \* useState(false)
    pending,          \* getSessionFeedback promises not yet settled (by session id)
    nextId,           \* ids handed out by crypto.randomUUID() so far
    failedWrites,     \* localStorage.setItem calls that have thrown so far
    currentView,      \* useState(AppView.TIMER): the view on display
    loop              \* the locals of handleStop's level-up loop, when run step by step

vars == <<now, stats, sessions, achievements, store, timerActive, timerSeconds,
          subject, startTimeRef, geminiFeedback, loadingFeedback, pending, nextId,
          failedWrites, currentView, loop>>

----------------------------------------------------------------------------
(* Bounds of the model *)

MaxSessions == 2        \* sessions committed in a behaviour
MaxDay == 1             \* the clock is observed on days StartDay .. StartDay + MaxDay
MaxTimerMinutes == 140  \* longest stretch the clock advances while the timer runs
MaxFailedWrites == 1    \* localStorage.setItem calls that throw in a behaviour
MaxLoopLevel == 5       \* highest level the level-up loop is entered at, run on its own
MaxLoopMinutes == 1000  \* longest session the level-up loop is run for, on its own

----------------------------------------------------------------------------
(* Units and constants *)

MsPerSecond == 1000
SecondsPerMinute == 60
MINUTE == SecondsPerMinute * MsPerSecond
HOUR == 60 * MINUTE
DAY == 24 * HOUR

XP_PER_MINUTE == 10
BASE_LEVEL_XP == 500
DiscardThresholdSeconds == 60

\* lastStudyDate: string | null -- null is modelled as NoDate
NoDate == 0 - 1

\* The run starts at 00:00:00 UTC of day StartDay.
StartDay == 2
StartNow == StartDay * DAY

\* Offsets within day d at which the clock is observed: on the first day one
\* second (a sub-minute session), 65 minutes, and MaxTimerMinutes after that
\* (a 65-minute and a 140-minute session fit into the day); on a later day
\* one second past midnight, when a timer paused the day before can be finished.
DayOffsets(d) ==
    IF d = 0 THEN {MsPerSecond, 65 * MINUTE, (65 + MaxTimerMinutes) * MINUTE}
    ELSE {MsPerSecond}

Instants == UNION {{StartNow + d * DAY + o : o \in DayOffsets(d)} : d \in 0..MaxDay}

\* new Date().setDate(getDate() - 1) moves the LOCAL wall clock back one
\* calendar day: 24 hours, or 23 / 25 hours across a daylight-saving change.
DstShifts == {0 - HOUR, 0, HOUR}

\* Milliseconds that pass between two reads of Date.now() in one handler: the
\* reads are separate calls, and a millisecond boundary may fall between them.
ClockLags == {0, 1}

\* enum AppView
AppView == {"TIMER", "STATS", "ACHIEVEMENTS"}

\* What the user types into the subject input; <<>> is the empty string.
Subjects == {<<>>, <<"m">>}

----------------------------------------------------------------------------
(* constants.ts *)

RECURSIVE IntPow(_, _)
IntPow(b, n) == IF n = 0 THEN 1 ELSE b * IntPow(b, n - 1)

\* floor(500 * (6/5)^(level-1)) in exact arithmetic: the leveling curve as the
\* formula reads.  500 = 4 * 5^3, so the quotient is taken over 5^(level-4).
LevelingCurve(level) ==
    LET k == level - 1
    IN  IF k <= 3 THEN (BASE_LEVEL_XP * IntPow(6, k)) \div IntPow(5, k)
        ELSE (4 * IntPow(6, k)) \div IntPow(5, k - 3)

\* Math.pow(1.2, level - 1) is an IEEE-754 double.  1.2 is not representable;
\* the double nearest to it lies below 6/5, and so does every power of it.
\* Where 500 * (6/5)^k is not an integer its fractional part is at least
\* 1/5^(k-3), far above the rounding error, and the floor is that of the exact
\* value.  Where it is an integer (k <= 3) the floor depends on the rounding:
\*   k = 0   pow = 1                    500 * pow = 500
\*   k = 1   pow = 1.2                  500 * pow = 600                (rounds up)
\*   k = 2   pow = 1.44                 500 * pow = 720                (rounds up)
\*   k = 3   pow = 1.7279999999999998   500 * pow = 863.9999999999999
\* (the exact cube of the double 1.2 lies 0.224 ulp above 1.7279999999999998
\* and 0.776 ulp below the double 1.728).
PowRoundingLoss(level) == IF level = 4 THEN 1 ELSE 0

\* Mutant of calculateNextLevelXP: the curve is capped.
calculateNextLevelXPCapped(level) ==
    IF LevelingCurve(level) > 4 * BASE_LEVEL_XP THEN 4 * BASE_LEVEL_XP ELSE LevelingCurve(level)

calculateNextLevelXP(level) == LevelingCurve(level) - PowRoundingLoss(level)

INITIAL_STATS ==
    [level |-> 1, currentXP |-> 0, nextLevelXP |-> BASE_LEVEL_XP,
     totalStudyMinutes |-> 0, streakDays |-> 0, lastStudyDate |-> NoDate]

\* The catalog; condition |-> TRUE stands for the closure stored in the entry.
ACHIEVEMENTS_DATA ==
    << [id |-> "first_step", condition |-> TRUE],
       [id |-> "dedicated",  condition |-> TRUE],
       [id |-> "streak_3",   condition |-> TRUE],
       [id |-> "deep_work",  condition |-> TRUE],
       [id |-> "master",     condition |-> TRUE] >>

\* The closures of the catalog, by achievement id.
Condition(id, st, ss) ==
    CASE id = "first_step" -> Len(ss) >= 1
      [] id = "dedicated"  -> st.totalStudyMinutes >= 300
      [] id = "streak_3"   -> st.streakDays >= 3
      [] id = "deep_work"  -> \E i \in 1..Len(ss) : ss[i].durationMinutes >= 60
      [] id = "master"     -> st.level >= 10
      [] OTHER             -> FALSE

\* ACHIEVEMENTS_DATA.map(a => ({ ...a, unlocked: false }))
InitialAchievements ==
    [i \in 1..Len(ACHIEVEMENTS_DATA) |->
        [id |-> ACHIEVEMENTS_DATA[i].id, unlocked |-> FALSE,
         condition |-> ACHIEVEMENTS_DATA[i].condition]]

----------------------------------------------------------------------------
(* useLocalStorage *)

\* JSON.parse(JSON.stringify(v)) of the achievements: a function-valued
\* property is omitted by JSON.stringify, so the parsed entries have no
\* condition (undefined, which is falsy).
JsonAchievements(a) ==
    [i \in 1..Len(a) |-> [id |-> a[i].id, unlocked |-> a[i].unlocked, condition |-> FALSE]]

\* Numbers, strings and null survive the round trip unchanged.
JsonStats(st) == st
JsonSessions(ss) == ss

EmptyStore ==
    [qf_stats        |-> [present |-> FALSE, value |-> INITIAL_STATS],
     qf_sessions     |-> [present |-> FALSE, value |-> <<>>],
     qf_achievements |-> [present |-> FALSE, value |-> JsonAchievements(InitialAchievements)]]

\* useState initialiser: item ? JSON.parse(item) : initialValue
LoadItem(item, initialValue) == IF item.present THEN item.value ELSE initialValue

\* setValue's localStorage.setItem: ok = FALSE is a setItem that throws (quota
\* exceeded, storage disabled); the catch logs it and the key keeps its old item.
SetItem(item, json, ok) == IF ok THEN [present |-> TRUE, value |-> json] ELSE item

----------------------------------------------------------------------------
(* Pure helpers of the App component *)

RECURSIVE TrimStart(_)
TrimStart(s) == IF s # <<>> /\ Head(s) = " " THEN TrimStart(Tail(s)) ELSE s

RECURSIVE TrimEnd(_)
TrimEnd(s) == IF s # <<>> /\ s[Len(s)] = " " THEN TrimEnd(SubSeq(s, 1, Len(s) - 1)) ELSE s

\* String.prototype.trim
trim(s) == TrimEnd(TrimStart(s))

\* Math.ceil(a / b) for a >= 0, b > 0
Ceil(a, b) == (a + b - 1) \div b

\* toISOString().split('T')[0]: the UTC calendar date, as a day number
DatePart(t) == t \div DAY

NoFeedback == [shown |-> FALSE, session |-> 0, kind |-> "none"]

\* What a settled getSessionFeedback promise carries: the parsed model reply,
\* the fixed fallback of the catch block, or null (no API key, empty text).
FeedbackOutcomes == {"message", "fallback", "null"}

----------------------------------------------------------------------------
(* services/geminiService *)

\* What generateContent does in one call: it rejects (network, quota, HTTP
\* error), or resolves with an empty text, with a text that JSON.parse accepts,
\* or with a text that JSON.parse rejects.
Responses == {"throws", "empty", "json", "garbage"}

\* The object returned by the catch block
FallbackFeedback == [message |-> "Quest complete! Well done, adventurer.", type |-> "victory"]

\* Mutant of getSessionFeedback: no try / catch around the request.
getSessionFeedbackUnguarded(apiKey, response) ==
    IF ~apiKey
    THEN [requested |-> FALSE, rejected |-> FALSE, kind |-> "null"]
    ELSE CASE response = "throws"  -> [requested |-> TRUE, rejected |-> TRUE,  kind |-> "null"]
           [] response = "empty"   -> [requested |-> TRUE, rejected |-> FALSE, kind |-> "null"]
           [] response = "json"    -> [requested |-> TRUE, rejected |-> FALSE, kind |-> "message"]
           [] response = "garbage" -> [requested |-> TRUE, rejected |-> TRUE,  kind |-> "null"]

\* getSessionFeedback: apiKey is whether process.env.API_KEY is set.
\*   requested  generateContent was called
\*   rejected   the returned promise rejects
\*   kind       what it resolves to: null, the parsed reply ("message") or
\*              FallbackFeedback ("fallback")
getSessionFeedback(apiKey, response) ==
    IF ~apiKey
    THEN [requested |-> FALSE, rejected |-> FALSE, kind |-> "null"]
    ELSE CASE response = "throws"  -> [requested |-> TRUE, rejected |-> FALSE, kind |-> "fallback"]
           [] response = "empty"   -> [requested |-> TRUE, rejected |-> FALSE, kind |-> "null"]
           [] response = "json"    -> [requested |-> TRUE, rejected |-> FALSE, kind |-> "message"]
           [] response = "garbage" -> [requested |-> TRUE, rejected |-> FALSE, kind |-> "fallback"]

----------------------------------------------------------------------------
(* handleStop, the pure parts *)

\* Mutant of LevelUpLoop: an "if" in place of the "while", one level per stop.
LevelUpOnce(newXP, newLevel, newNextLevelXP, didLevelUp) ==
    IF newXP >= newNextLevelXP
    THEN [xp |-> newXP - newNextLevelXP, level |-> newLevel + 1,
          next |-> calculateNextLevelXP(newLevel + 1), didLevelUp |-> TRUE]
    ELSE [xp |-> newXP, level |-> newLevel, next |-> newNextLevelXP,
          didLevelUp |-> didLevelUp]

\* Mutant of LevelUpLoop: the XP left over after a level-up is dropped.
RECURSIVE LevelUpTruncating(_, _, _, _)
LevelUpTruncating(newXP, newLevel, newNextLevelXP, didLevelUp) ==
    IF newXP >= newNextLevelXP
    THEN LevelUpTruncating(0, newLevel + 1, calculateNextLevelXP(newLevel + 1), TRUE)
    ELSE [xp |-> newXP, level |-> newLevel, next |-> newNextLevelXP,
          didLevelUp |-> didLevelUp]

\* while (newXP >= newNextLevelXP) { newXP -= newNextLevelXP; newLevel++;
\*   newNextLevelXP = calculateNextLevelXP(newLevel); didLevelUp = true; }
RECURSIVE LevelUpLoop(_, _, _, _)
LevelUpLoop(newXP, newLevel, newNextLevelXP, didLevelUp) ==
    IF newXP >= newNextLevelXP
    THEN LevelUpLoop(newXP - newNextLevelXP, newLevel + 1,
                     calculateNextLevelXP(newLevel + 1), TRUE)
    ELSE [xp |-> newXP, level |-> newLevel, next |-> newNextLevelXP,
          didLevelUp |-> didLevelUp]

\* yesterday.setDate(yesterday.getDate() - 1); yesterday.toISOString().split('T')[0]
\* dst is the daylight-saving shift of the local clock over that day.
YesterdayStr(t, dst) == DatePart(t - DAY + dst)

\* Calculate Streak
NewStreak(st, t, dst) ==
    LET today    == DatePart(t)
        lastDate == IF st.lastStudyDate # NoDate THEN DatePart(st.lastStudyDate) ELSE NoDate
    IN  IF lastDate # today
        THEN IF lastDate = YesterdayStr(t, dst) THEN st.streakDays + 1 ELSE 1
        ELSE st.streakDays

\* Mutant of Discards: the prompt is skipped and every session is kept.
DiscardsNever(secs, discard) == FALSE

\* Mutant of Discards: a sub-minute session is dropped whatever the answer.
DiscardsUnasked(secs, discard) == secs < DiscardThresholdSeconds

\* if (timerSeconds < 60) { if (confirm("... Discard it?")) { ...; return; } }
Discards(secs, discard) == secs < DiscardThresholdSeconds /\ discard

\* const newSession: Session = {...}: startTime and endTime each read
\* Date.now(); t is the first reading, t + lag the second.
NewSession(id, t, lag, secs, subj) ==
    LET durationMinutes == Ceil(secs, SecondsPerMinute)
    IN  [id |-> id,
         startTime |-> t - secs * MsPerSecond,
         endTime |-> t + lag,
         durationMinutes |-> durationMinutes,
         subject |-> subj,
         xpEarned |-> durationMinutes * XP_PER_MINUTE]

\* const updatedStats: UserStats = {...}
UpdatedStats(st, t, secs, dst) ==
    LET durationMinutes == Ceil(secs, SecondsPerMinute)
        xpEarned == durationMinutes * XP_PER_MINUTE
        r == LevelUpLoop(st.currentXP + xpEarned, st.level, st.nextLevelXP, FALSE)
    IN  [level |-> r.level,
         currentXP |-> r.xp,
         nextLevelXP |-> r.next,
         totalStudyMinutes |-> st.totalStudyMinutes + durationMinutes,
         streakDays |-> NewStreak(st, t, dst),
         lastStudyDate |-> t]

\* Mutant of UpdatedAchievements: at most one achievement unlocks per stop.
UpdatedAchievementsOneAtATime(achs, st, ss) ==
    LET met(i) == ~achs[i].unlocked /\ achs[i].condition /\ Condition(achs[i].id, st, ss)
    IN  [i \in 1..Len(achs) |->
            IF met(i) /\ \A j \in 1..(i - 1) : ~met(j)
            THEN [achs[i] EXCEPT !.unlocked = TRUE]
            ELSE achs[i]]

\* achievements.map(ach => !ach.unlocked && ach.condition && ach.condition(...)
\*                         ? { ...ach, unlocked: true } : ach)
UpdatedAchievements(achs, st, ss) ==
    [i \in 1..Len(achs) |->
        IF ~achs[i].unlocked /\ achs[i].condition /\ Condition(achs[i].id, st, ss)
        THEN [achs[i] EXCEPT !.unlocked = TRUE]
        ELSE achs[i]]

----------------------------------------------------------------------------
(* Initial state: first launch, nothing persisted *)

AppInit ==
    /\ now = StartNow
    /\ store = EmptyStore
    /\ stats = LoadItem(store.qf_stats, INITIAL_STATS)
    /\ sessions = LoadItem(store.qf_sessions, <<>>)
    /\ achievements = LoadItem(store.qf_achievements, InitialAchievements)
    /\ timerActive = FALSE
    /\ timerSeconds = 0
    /\ subject = <<>>
    /\ startTimeRef = 0
    /\ geminiFeedback = NoFeedback
    /\ loadingFeedback = FALSE
    /\ pending = {}
    /\ nextId = 1
    /\ failedWrites = 0
    /\ currentView = "TIMER"

\* In the application every stop runs its level-up loop within the handler.
LoopIdle == [pc |-> "idle"]

Init == AppInit /\ loop = LoopIdle

\* Groups of variables, for the frame conditions
records == <<stats, sessions, achievements, store, failedWrites>>
timer == <<timerActive, timerSeconds, startTimeRef>>
feedback == <<geminiFeedback, loadingFeedback, pending>>

----------------------------------------------------------------------------
(* Environment *)

\* Wall-clock time passes.  While the timer runs the stretch is capped.
AdvanceClock ==
    \E t \in Instants :
        /\ t > now
        /\ timerActive => t - startTimeRef <= MaxTimerMinutes * MINUTE
        /\ now' = t
        /\ UNCHANGED <<records, timer, subject, feedback, nextId, currentView, loop>>

\* The page is closed and opened again: every useState is initialised anew,
\* the three records from localStorage; promises of the old page are gone.
Reload ==
    /\ stats' = LoadItem(store.qf_stats, INITIAL_STATS)
    /\ sessions' = LoadItem(store.qf_sessions, <<>>)
    /\ achievements' = LoadItem(store.qf_achievements, InitialAchievements)
    /\ timerActive' = FALSE
    /\ timerSeconds' = 0
    /\ subject' = <<>>
    /\ startTimeRef' = 0
    /\ geminiFeedback' = NoFeedback
    /\ loadingFeedback' = FALSE
    /\ pending' = {}
    /\ currentView' = "TIMER"
    /\ UNCHANGED <<now, store, nextId, failedWrites, loop>>

----------------------------------------------------------------------------
(* The App component *)

\* Mutant of Tick: each callback adds its nominal second to the count.
TickAddsOne ==
    /\ timerActive
    /\ timerSeconds' = timerSeconds + 1
    /\ UNCHANGED <<now, records, timerActive, startTimeRef, subject, feedback, nextId, currentView, loop>>

\* setInterval callback of the timer effect
Tick ==
    /\ timerActive
    /\ timerSeconds' = (now - startTimeRef) \div MsPerSecond
    /\ UNCHANGED <<now, records, timerActive, startTimeRef, subject, feedback, nextId, currentView, loop>>

\* onChange of the subject input, disabled while the timer is active
SetSubject ==
    \E s \in Subjects :
        /\ currentView = "TIMER"
        /\ ~timerActive
        /\ subject' = s
        /\ UNCHANGED <<now, records, timer, feedback, nextId, currentView, loop>>

\* Navigation buttons of the header: onClick={() => setCurrentView(...)}
setCurrentView ==
    \E v \in AppView :
        /\ currentView' = v
        /\ UNCHANGED <<now, records, timer, subject, feedback, nextId, loop>>

\* Mutant of handleStart: the effect fixes the start instant at the click, so
\* a resumed timer counts again from zero.
handleStartFromZero ==
    /\ currentView = "TIMER"
    /\ ~timerActive
    /\ IF trim(subject) = <<>>
       THEN UNCHANGED vars
       ELSE /\ timerActive' = TRUE
            /\ geminiFeedback' = NoFeedback
            /\ startTimeRef' = now
            /\ UNCHANGED <<now, records, timerSeconds, subject, loadingFeedback,
                           pending, nextId, currentView, loop>>

\* Start button (shown while the timer is not active), with the timer effect
\* that runs when timerActive becomes true.
handleStart ==
    /\ currentView = "TIMER"
    /\ ~timerActive
    /\ IF trim(subject) = <<>>
       THEN UNCHANGED vars
       ELSE /\ timerActive' = TRUE
            /\ geminiFeedback' = NoFeedback
            /\ startTimeRef' = now - timerSeconds * MsPerSecond
            /\ UNCHANGED <<now, records, timerSeconds, subject, loadingFeedback,
                           pending, nextId, currentView, loop>>

\* Pause button (shown while the timer is active)
handlePause ==
    /\ currentView = "TIMER"
    /\ timerActive
    /\ timerActive' = FALSE
    /\ UNCHANGED <<now, records, timerSeconds, startTimeRef, subject, feedback, nextId, currentView, loop>>

\* setItem calls that throw among the three of one stop
Failures(okS, okL, okA) ==
    (IF okS THEN 0 ELSE 1) + (IF okL THEN 0 ELSE 1) + (IF okA THEN 0 ELSE 1)

\* Finish button (disabled while timerSeconds is 0), up to the await.
\*   discard       the answer to confirm("... Discard it?")
\*   lag           the time between the first and the later reads of the clock
\*   dst           the daylight-saving shift seen by setDate
\*   okS, okL, okA whether the setItem of stats / sessions / achievements succeeds
handleStopWith(discard, lag, dst, okS, okL, okA) ==
        /\ currentView = "TIMER"
        /\ timerSeconds # 0
        /\ nextId <= MaxSessions
        /\ timerActive' = FALSE
        /\ IF Discards(timerSeconds, discard)
           THEN /\ timerSeconds' = 0
                /\ UNCHANGED <<now, records, startTimeRef, subject, feedback, nextId, currentView, loop>>
           ELSE LET newSession == NewSession(nextId, now, lag, timerSeconds, subject)
                    updatedStats == UpdatedStats(stats, now + lag, timerSeconds, dst)
                    updatedSessions == <<newSession>> \o sessions
                    updatedAchievements ==
                        UpdatedAchievements(achievements, updatedStats, updatedSessions)
                IN  /\ failedWrites + Failures(okS, okL, okA) <= MaxFailedWrites
                    /\ failedWrites' = failedWrites + Failures(okS, okL, okA)
                    /\ stats' = updatedStats
                    /\ sessions' = updatedSessions
                    /\ achievements' = updatedAchievements
                    /\ store' =
                         [qf_stats |-> SetItem(store.qf_stats, JsonStats(updatedStats), okS),
                          qf_sessions |-> SetItem(store.qf_sessions, JsonSessions(updatedSessions), okL),
                          qf_achievements |-> SetItem(store.qf_achievements,
                                                      JsonAchievements(updatedAchievements), okA)]
                    /\ loadingFeedback' = TRUE
                    /\ timerSeconds' = 0
                    /\ subject' = <<>>
                    /\ pending' = pending \cup {newSession.id}
                    /\ nextId' = nextId + 1
                    /\ UNCHANGED <<now, startTimeRef, geminiFeedback, currentView, loop>>

handleStop ==
    \E discard \in BOOLEAN, lag \in ClockLags, dst \in DstShifts,
       okS \in BOOLEAN, okL \in BOOLEAN, okA \in BOOLEAN :
        handleStopWith(discard, lag, dst, okS, okL, okA)

\* Mutant of FeedbackSettled: a failed feedback call takes the session back.
FeedbackSettledRollsBack ==
    \E r \in pending, apiKey \in BOOLEAN, response \in Responses :
        LET call == getSessionFeedback(apiKey, response)
        IN  /\ pending' = pending \ {r}
            /\ geminiFeedback' = IF call.rejected \/ call.kind = "null" THEN geminiFeedback
                                 ELSE [shown |-> TRUE, session |-> r, kind |-> call.kind]
            /\ loadingFeedback' = FALSE
            /\ sessions' = IF call.kind = "fallback" /\ sessions # <<>>
                           THEN Tail(sessions) ELSE sessions
            /\ UNCHANGED <<now, stats, achievements, store, failedWrites, timer, subject,
                           nextId, currentView, loop>>

\* The rest of handleStop, after await getSessionFeedback(...) settles for the
\* request of session r:
\*   if (feedback) setGeminiFeedback(feedback); catch (e) { console.error(e) }
\*   finally { setLoadingFeedback(false) }
FeedbackSettledWith(r, apiKey, response) ==
    LET call == getSessionFeedback(apiKey, response)
    IN  /\ r \in pending
        /\ pending' = pending \ {r}
        /\ geminiFeedback' = IF call.rejected \/ call.kind = "null" THEN geminiFeedback
                             ELSE [shown |-> TRUE, session |-> r, kind |-> call.kind]
        /\ loadingFeedback' = FALSE
        /\ UNCHANGED <<now, records, timer, subject, nextId, currentView, loop>>

FeedbackSettled ==
    \E r \in pending, apiKey \in BOOLEAN, response \in Responses :
        FeedbackSettledWith(r, apiKey, response)

Next ==
    \/ AdvanceClock
    \/ Reload
    \/ Tick
    \/ SetSubject
    \/ setCurrentView
    \/ handleStart
    \/ handlePause
    \/ handleStop
    \/ FeedbackSettled

Spec == Init /\ [][Next]_vars

----------------------------------------------------------------------------
(* The level-up loop of handleStop, one iteration per step.  In Spec it runs *)
(* within the stop (LevelUpLoop); LoopSpec runs it on its own, from stats    *)
(* and session lengths beyond those a bounded behaviour of the timer gives.  *)

app == <<now, records, timer, subject, feedback, nextId, currentView>>

\* Session lengths in minutes, and the XP in hand at level l
LoopMinutes == {1, 65, 140, 600, MaxLoopMinutes}
LoopCurrentXPs(l) == {0, 150, calculateNextLevelXP(l) - 1}

\* let newXP = stats.currentXP + xpEarned; let newLevel = stats.level;
\* let newNextLevelXP = stats.nextLevelXP; let didLevelUp = false;
LoopEntry(st, xpEarned) ==
    [pc |-> "test",
     newXP |-> st.currentXP + xpEarned,
     newLevel |-> st.level,
     newNextLevelXP |-> st.nextLevelXP,
     didLevelUp |-> FALSE,
     iterations |-> 0,
     entry |-> [xp |-> st.currentXP + xpEarned, level |-> st.level, next |-> st.nextLevelXP]]

LoopInit ==
    /\ AppInit
    /\ \E l \in 1..MaxLoopLevel, m \in LoopMinutes :
        \E x \in LoopCurrentXPs(l) :
            loop = LoopEntry([INITIAL_STATS EXCEPT !.level = l, !.currentXP = x,
                                                  !.nextLevelXP = calculateNextLevelXP(l)],
                             m * XP_PER_MINUTE)

\* Mutant of LoopIteration: the threshold is not taken off the XP.
LoopIterationKeepsXP ==
    /\ loop.pc = "test"
    /\ loop.newXP >= loop.newNextLevelXP
    /\ loop' = [loop EXCEPT !.newLevel = @ + 1,
                            !.newNextLevelXP = calculateNextLevelXP(loop.newLevel + 1),
                            !.didLevelUp = TRUE,
                            !.iterations = @ + 1]
    /\ UNCHANGED app

\* while (newXP >= newNextLevelXP) { newXP -= newNextLevelXP; newLevel++;
\*   newNextLevelXP = calculateNextLevelXP(newLevel); didLevelUp = true; }
LoopIteration ==
    /\ loop.pc = "test"
    /\ loop.newXP >= loop.newNextLevelXP
    /\ loop' = [loop EXCEPT !.newXP = @ - loop.newNextLevelXP,
                            !.newLevel = @ + 1,
                            !.newNextLevelXP = calculateNextLevelXP(loop.newLevel + 1),
                            !.didLevelUp = TRUE,
                            !.iterations = @ + 1]
    /\ UNCHANGED app

\* The loop condition is false: control passes to "Update Stats".
LoopExit ==
    /\ loop.pc = "test"
    /\ loop.newXP < loop.newNextLevelXP
    /\ loop' = [loop EXCEPT !.pc = "done"]
    /\ UNCHANGED app

LoopNext ==
    \/ LoopIteration
    \/ LoopExit

\* The loop is synchronous code of one handler: it runs on while it can.
LoopSpec == LoopInit /\ [][LoopNext]_vars /\ WF_vars(LoopNext)

----------------------------------------------------------------------------
(* Vocabulary of the properties *)

\* A step that commits a session: it takes a fresh id for it.
Committed == nextId' = nextId + 1

\* The three records as a reload would read them
PersistedStats == LoadItem(store.qf_stats, INITIAL_STATS)
PersistedSessions == LoadItem(store.qf_sessions, <<>>)
PersistedAchievements == LoadItem(store.qf_achievements, InitialAchievements)

\* The completion instant of the newest session of a ledger
LatestInLedger(ss) == IF ss = <<>> THEN NoDate ELSE Head(ss).endTime

\* Thresholds of the levels l1 .. l2 - 1
RECURSIVE SumThresholds(_, _)
SumThresholds(l1, l2) ==
    IF l1 >= l2 THEN 0 ELSE calculateNextLevelXP(l1) + SumThresholds(l1 + 1, l2)

AchievementIndex == 1..Len(ACHIEVEMENTS_DATA)

----------------------------------------------------------------------------
(* C1 - C10 *)

\* C1: in every reachable state 0 <= stats.currentXP < stats.nextLevelXP.
CurrentXPBelowThreshold ==
    /\ 0 <= stats.currentXP
    /\ stats.currentXP < stats.nextLevelXP

\* A stop whose XP crossed more than one threshold has been committed.
CurrentXPWitness ==
    /\ stats.level >= 3
    /\ Len(sessions) = 1
    /\ stats.currentXP > 0

\* C2: in every reachable state stats.level >= 1 and stats.nextLevelXP is
\* calculateNextLevelXP(stats.level), which is floor(500 * 1.2^(level-1)).
NextLevelXPIsCurve ==
    /\ stats.level >= 1
    /\ stats.nextLevelXP = calculateNextLevelXP(stats.level)
    /\ stats.nextLevelXP = LevelingCurve(stats.level)

\* C3: one stop advances through every threshold its XP spans, subtracting
\* each in turn with nothing capped or dropped; from level 1 with 0 XP a
\* 140-minute session gives level 3, currentXP 300, nextLevelXP 720.
MultiLevelRollover ==
    [][Committed =>
        /\ stats.currentXP + Head(sessions').xpEarned
             = stats'.currentXP + SumThresholds(stats.level, stats'.level)
        /\ stats'.currentXP < calculateNextLevelXP(stats'.level)
        /\ (/\ stats.level = 1 /\ stats.currentXP = 0 /\ stats.nextLevelXP = 500
            /\ Head(sessions').durationMinutes = 140)
           => (stats'.level = 3 /\ stats'.currentXP = 300 /\ stats'.nextLevelXP = 720)
      ]_vars

\* The 140-minute session from fresh stats has been committed.
MultiLevelWitness ==
    /\ Len(sessions) = 1
    /\ sessions[1].durationMinutes = 140
    /\ sessions[1].xpEarned = 1400
    /\ stats.totalStudyMinutes = 140
    /\ stats.level = 3

\* C4: the new streak follows the calendar dates of stats.lastStudyDate and of
\* the completion: same date unchanged, the day before +1, anything else 1.
StreakByCalendarDate ==
    [][Committed =>
        LET last == stats.lastStudyDate
            done == stats'.lastStudyDate
        IN  stats'.streakDays =
              IF last # NoDate /\ DatePart(last) = DatePart(done) THEN stats.streakDays
              ELSE IF last # NoDate /\ DatePart(last) = DatePart(done) - 1
                   THEN stats.streakDays + 1
                   ELSE 1
      ]_vars

\* C5: every stop that commits a session unlocks each achievement that was
\* locked and whose catalog condition holds of the updated stats and ledger,
\* also after the records were reloaded from the store.
ConditionMetUnlocks ==
    [][Committed =>
        \A i \in AchievementIndex :
            (~achievements[i].unlocked /\ Condition(achievements[i].id, stats', sessions'))
                => achievements'[i].unlocked
      ]_vars

\* C6: an achievement that is unlocked stays unlocked over every later step.
UnlockedStaysUnlocked ==
    [][\A i \in AchievementIndex : achievements[i].unlocked => achievements'[i].unlocked]_vars

\* The records st, ss, achs reflect the same sessions: the newest session of
\* the ledger is the one the stats were last updated for, and first_step is
\* unlocked exactly when the ledger has a session.
RecordsAgree(st, ss, achs) ==
    /\ LatestInLedger(ss) = st.lastStudyDate
    /\ achs[1].unlocked <=> (ss # <<>>)

\* C7: a stop is atomic over the three records: in every state the records in
\* memory reflect the same sessions, and so do the three persisted records.
StopIsAtomic ==
    /\ RecordsAgree(stats, sessions, achievements)
    /\ RecordsAgree(PersistedStats, PersistedSessions, PersistedAchievements)

\* A request is outstanding only for a session in the ledger and in the stats.
OutstandingRequestsAreCommitted ==
    \A r \in pending :
        /\ \E i \in 1..Len(sessions) : sessions[i].id = r
        /\ stats.lastStudyDate # NoDate
        /\ achievements[1].unlocked

\* While a request is outstanding the Start button starts the timer.
StartNotBlocked ==
    (pending # {} /\ currentView = "TIMER" /\ ~timerActive /\ trim(subject) # <<>>)
        => ENABLED (handleStart /\ timerActive')

\* C8: the feedback call is issued only after the session is committed; its
\* settling, whatever the outcome, leaves stats, ledger, achievements and the
\* store as they are; and while it is outstanding the next session can start.
FeedbackNeverBlocksOrRollsBack ==
    /\ [](OutstandingRequestsAreCommitted /\ StartNotBlocked)
    /\ [][FeedbackSettled => UNCHANGED <<stats, sessions, achievements, store>>]_vars

\* The next session runs while the request of the last one is outstanding.
FeedbackWitness ==
    /\ pending # {}
    /\ timerActive
    /\ timerSeconds > 0
    /\ sessions # <<>>

\* C9: every Session in the ledger has a non-empty subject.
SubjectNonEmpty ==
    \A i \in 1..Len(sessions) : sessions[i].subject # <<>>

\* C10 as stated: no stop with timerSeconds < 60 creates a Session or changes
\* stats or achievements, whatever the answer to the discard prompt.
SubMinuteNeverCommits ==
    [][(handleStop /\ timerSeconds < DiscardThresholdSeconds)
         => UNCHANGED <<stats, sessions, achievements>>]_vars

\* C10 as amended: a stop with timerSeconds < 60 leaves stats, ledger,
\* achievements and the store unchanged when the discard is confirmed, and
\* commits the session, as one of 1 minute, when the discard is declined.
SubMinuteCommitsOnlyIfKept ==
    [][(0 < timerSeconds /\ timerSeconds < DiscardThresholdSeconds /\ timerSeconds' = 0) =>
        \A lag \in ClockLags, dst \in DstShifts, okS \in BOOLEAN, okL \in BOOLEAN, okA \in BOOLEAN :
            /\ handleStopWith(TRUE, lag, dst, okS, okL, okA)
                 => UNCHANGED <<stats, sessions, achievements, store>>
            /\ handleStopWith(FALSE, lag, dst, okS, okL, okA)
                 => /\ Len(sessions') = Len(sessions) + 1
                    /\ Head(sessions').durationMinutes = 1
                    /\ stats'.totalStudyMinutes = stats.totalStudyMinutes + 1
      ]_vars

\* A session of under a minute was kept and is in the ledger.
SubMinuteWitness ==
    \E i \in 1..Len(sessions) :
        sessions[i].endTime - sessions[i].startTime < DiscardThresholdSeconds * MsPerSecond

----------------------------------------------------------------------------
(* C11 - C20 *)

\* C11: a stop with timerSeconds < 60 whose discard is confirmed creates no
\* Session, leaves stats, ledger, achievements and the store unchanged, makes
\* no feedback call, and resets the timer to 0.
ConfirmedDiscardChangesNothing ==
    [][(0 < timerSeconds /\ timerSeconds < DiscardThresholdSeconds /\ ~timerActive') =>
        \A lag \in ClockLags, dst \in DstShifts, okS \in BOOLEAN, okL \in BOOLEAN, okA \in BOOLEAN :
            handleStopWith(TRUE, lag, dst, okS, okL, okA)
                => /\ UNCHANGED <<stats, sessions, achievements, store, nextId>>
                   /\ UNCHANGED <<pending, loadingFeedback, geminiFeedback>>
                   /\ timerSeconds' = 0
      ]_vars

\* The running timer shows under a minute and Finish, answered with a
\* confirmed discard, can be pressed.
ConfirmedDiscardWitness ==
    /\ timerActive
    /\ 0 < timerSeconds
    /\ timerSeconds < DiscardThresholdSeconds
    /\ ENABLED handleStopWith(TRUE, 0, 0, TRUE, TRUE, TRUE)

\* C12: every Session in the ledger has endTime >= startTime, durationMinutes
\* >= 1 and equal to ceil((endTime - startTime) / 60000), and xpEarned equal
\* to durationMinutes * 10.
SessionsDerivedFromTimestamps ==
    \A i \in 1..Len(sessions) :
        LET s == sessions[i]
        IN  /\ s.endTime >= s.startTime
            /\ s.durationMinutes >= 1
            /\ s.durationMinutes = Ceil(s.endTime - s.startTime, MINUTE)
            /\ s.xpEarned = s.durationMinutes * XP_PER_MINUTE

\* C13: the ledger is append-only, newest first: a committed stop prepends
\* exactly one Session and keeps every earlier entry and their order; every
\* other step leaves the ledger as it is.
LedgerAppendOnly ==
    [][IF Committed
       THEN Len(sessions') = Len(sessions) + 1 /\ Tail(sessions') = sessions
       ELSE sessions' = sessions
      ]_vars

\* C14: pausing keeps the elapsed time: handlePause leaves timerSeconds as it
\* is; while paused the passing of wall-clock time, typing and view changes
\* leave it as it is; a resume fixes the start instant so that the count goes
\* on from the paused value, without the paused interval; and no tick takes
\* timerSeconds below its value.
PauseKeepsElapsedTime ==
    [][/\ handlePause => timerSeconds' = timerSeconds
       /\ (~timerActive /\ (AdvanceClock \/ SetSubject \/ setCurrentView \/ FeedbackSettled))
            => timerSeconds' = timerSeconds
       /\ (handleStart /\ timerActive')
            => /\ timerSeconds' = timerSeconds
               /\ (now - startTimeRef') \div MsPerSecond = timerSeconds
       /\ Tick => timerSeconds' >= timerSeconds
      ]_vars

\* A timer paused at p seconds was resumed at r and has ticked since.
ResumedTimerWitness ==
    /\ timerActive
    /\ \E r \in Instants \cup {StartNow}, p \in 1..(DiscardThresholdSeconds - 1) :
           /\ startTimeRef = r - p * MsPerSecond
           /\ r < now
           /\ timerSeconds = p + (now - r) \div MsPerSecond

\* C15: while the timer is active the start instant stays as fixed at the
\* (re)start, every tick sets timerSeconds to floor((now - start instant) /
\* 1000) whatever ticks came before, and the count is never ahead of the
\* wall clock.
TickRecomputesFromStartInstant ==
    /\ [](timerActive => timerSeconds * MsPerSecond <= now - startTimeRef)
    /\ [][Tick => timerSeconds' = (now - startTimeRef) \div MsPerSecond]_vars
    /\ [][(timerActive /\ timerActive') => startTimeRef' = startTimeRef]_vars

\* The timer was started at 01:05 and a tick 140 minutes later shows 140:00.
TickWitness ==
    /\ timerActive
    /\ startTimeRef = StartNow + 65 * MINUTE
    /\ now = startTimeRef + MaxTimerMinutes * MINUTE
    /\ timerSeconds = MaxTimerMinutes * SecondsPerMinute

\* C16: getSessionFeedback degrades gracefully: with no API key it makes no
\* request and resolves to null; when the request throws or the reply cannot
\* be parsed it resolves to the fixed fallback message of type "victory"; its
\* promise never rejects.  The caller then shows the fallback, or keeps what
\* was on display when the result is null.
FeedbackDegradesGracefully ==
    [][\A r \in pending \ pending', apiKey \in BOOLEAN, response \in Responses :
        FeedbackSettledWith(r, apiKey, response) =>
            LET call == getSessionFeedback(apiKey, response)
            IN  /\ ~call.rejected
                /\ call.kind \in FeedbackOutcomes
                /\ ~apiKey => /\ ~call.requested
                              /\ call.kind = "null"
                              /\ geminiFeedback' = geminiFeedback
                /\ (apiKey /\ response \in {"throws", "garbage"})
                     => /\ call.kind = "fallback"
                        /\ FallbackFeedback.type = "victory"
                        /\ geminiFeedback' = [shown |-> TRUE, session |-> r, kind |-> "fallback"]
      ]_vars

\* The fallback message of a failed request is on display.
FallbackShownWitness ==
    /\ geminiFeedback.shown
    /\ geminiFeedback.kind = "fallback"
    /\ ~loadingFeedback

\* First launch: nothing persisted, nothing studied.
FreshState ==
    /\ stats = INITIAL_STATS
    /\ sessions = <<>>
    /\ achievements = InitialAchievements

\* C17: from fresh state one committed 65-minute session yields
\* durationMinutes 65, xpEarned 650, totalStudyMinutes 65, level 2, currentXP
\* 150, nextLevelXP 600, streakDays 1, with first_step and deep_work unlocked
\* and dedicated, streak_3 and master locked.
EndToEndFirstSession ==
    [][(Committed /\ FreshState /\ Ceil(timerSeconds, SecondsPerMinute) = 65) =>
        /\ Len(sessions') = 1
        /\ sessions'[1].durationMinutes = 65
        /\ sessions'[1].xpEarned = 650
        /\ stats'.totalStudyMinutes = 65
        /\ stats'.level = 2
        /\ stats'.currentXP = 150
        /\ stats'.nextLevelXP = 600
        /\ stats'.streakDays = 1
        /\ {achievements'[i].id : i \in {j \in AchievementIndex : achievements'[j].unlocked}}
             = {"first_step", "deep_work"}
      ]_vars

\* The 65-minute first session has been committed.
EndToEndWitness ==
    /\ Len(sessions) = 1
    /\ sessions[1].durationMinutes = 65
    /\ stats.level = 2
    /\ stats.currentXP = 150
    /\ achievements[4].unlocked

\* C18: the leveling curve is positive and strictly increasing, with
\* calculateNextLevelXP(1) = 500, (2) = 600, (3) = 720.
CurveStrictlyIncreasing ==
    /\ calculateNextLevelXP(1) = 500
    /\ calculateNextLevelXP(2) = 600
    /\ calculateNextLevelXP(3) = 720
    /\ \A l \in 1..loop.newLevel :
           /\ calculateNextLevelXP(l) > 0
           /\ calculateNextLevelXP(l + 1) > calculateNextLevelXP(l)

\* The loop has climbed the curve to level 9 or beyond.
CurveWitness ==
    /\ loop.newLevel >= 9
    /\ loop.newNextLevelXP = calculateNextLevelXP(loop.newLevel)

\* C20: the level-up loop terminates: every iteration takes a threshold of
\* at least 500 off the XP, which stays non-negative, so there are at most
\* xp / 500 iterations; and it ends with the result the stop handler uses.
LoopTerminatesWithinBound ==
    /\ [](loop.iterations * BASE_LEVEL_XP <= loop.entry.xp - loop.newXP)
    /\ [](loop.newXP >= 0 /\ loop.iterations <= loop.entry.xp \div BASE_LEVEL_XP)
    /\ [](loop.pc = "done" =>
            [xp |-> loop.newXP, level |-> loop.newLevel, next |-> loop.newNextLevelXP,
             didLevelUp |-> loop.didLevelUp]
              = LevelUpLoop(loop.entry.xp, loop.entry.level, loop.entry.next, FALSE))
    /\ <>(loop.pc = "done")

\* The loop has ended after eight iterations or more.
LoopWitness ==
    /\ loop.pc = "done"
    /\ loop.iterations >= 8

\* The shapes of types.ts
WellFormedStats(st) ==
    /\ DOMAIN st = {"level", "currentXP", "nextLevelXP", "totalStudyMinutes",
                    "streakDays", "lastStudyDate"}
    /\ st.level \in Nat /\ st.currentXP \in Nat /\ st.nextLevelXP \in Nat
    /\ st.totalStudyMinutes \in Nat /\ st.streakDays \in Nat
    /\ st.lastStudyDate = NoDate \/ st.lastStudyDate \in Nat

WellFormedSessions(ss) ==
    \A i \in 1..Len(ss) :
        /\ DOMAIN ss[i] = {"id", "startTime", "endTime", "durationMinutes", "subject", "xpEarned"}
        /\ ss[i].startTime \in Nat /\ ss[i].endTime \in Nat
        /\ ss[i].durationMinutes \in Nat /\ ss[i].xpEarned \in Nat

\* condition: (stats, sessions) => boolean is a member of every Achievement
WellFormedAchievements(achs) ==
    /\ Len(achs) = Len(ACHIEVEMENTS_DATA)
    /\ \A i \in AchievementIndex :
           /\ achs[i].id = ACHIEVEMENTS_DATA[i].id
           /\ achs[i].unlocked \in BOOLEAN
           /\ achs[i].condition = TRUE

\* C19: on start each of the three records is loaded on its own, an absent
\* record is replaced by its default, and the state after the load is a
\* well-formed UserStats, Session sequence and Achievement sequence.
LoadYieldsWellFormedRecords ==
    [][Reload =>
        /\ stats' = IF store.qf_stats.present THEN store.qf_stats.value ELSE INITIAL_STATS
        /\ sessions' = IF store.qf_sessions.present THEN store.qf_sessions.value ELSE <<>>
        /\ ~store.qf_achievements.present => achievements' = InitialAchievements
        /\ WellFormedStats(stats')
        /\ WellFormedSessions(sessions')
        /\ WellFormedAchievements(achievements')
      ]_vars

----------------------------------------------------------------------------
(* C21 - C24 *)

RECURSIVE SumDurationMinutes(_)
SumDurationMinutes(ss) ==
    IF ss = <<>> THEN 0 ELSE Head(ss).durationMinutes + SumDurationMinutes(Tail(ss))

RECURSIVE SumXpEarned(_)
SumXpEarned(ss) ==
    IF ss = <<>> THEN 0 ELSE Head(ss).xpEarned + SumXpEarned(Tail(ss))

\* The stats st are those derived from the ledger ss.
StatsDerivedFromLedger(st, ss) ==
    /\ st.totalStudyMinutes = SumDurationMinutes(ss)
    /\ (st.lastStudyDate = NoDate) <=> (ss = <<>>)

\* C21: in every state stats.totalStudyMinutes is the sum of durationMinutes
\* over the ledger and stats.lastStudyDate is null exactly when the ledger is
\* empty, in memory and in the records a reload would read.
TotalsMatchLedger ==
    /\ StatsDerivedFromLedger(stats, sessions)
    /\ StatsDerivedFromLedger(PersistedStats, PersistedSessions)

\* C22: XP is conserved by leveling: in every state the sum of xpEarned over
\* the ledger is stats.currentXP plus the thresholds calculateNextLevelXP(l) of
\* the levels l = 1 .. stats.level - 1.
XPConserved ==
    SumXpEarned(sessions) = stats.currentXP + SumThresholds(1, stats.level)

\* The "Total XP" card of the stats view:
\*   stats.currentXP + (stats.level > 1
\*       ? calculateNextLevelXP(stats.level - 1) * (stats.level - 1) : 0)
TotalXPShown(st) ==
    st.currentXP + (IF st.level > 1
                    THEN calculateNextLevelXP(st.level - 1) * (st.level - 1)
                    ELSE 0)

\* C23: the "Total XP" shown in the stats view equals the XP actually earned,
\* the sum of xpEarned over the ledger, in every state.
TotalXPShownIsEarned ==
    currentView = "STATS" => TotalXPShown(stats) = SumXpEarned(sessions)

\* C24: under any interleaving of stops, starts and feedback responses, a
\* feedback message on display is the response to the request of the session
\* committed last, and loadingFeedback is true exactly while a request is
\* outstanding.
FeedbackIsOfLatestSession ==
    /\ geminiFeedback.shown => geminiFeedback.session = nextId - 1
    /\ loadingFeedback <=> (pending # {})

====
